---- MODULE Spec2Model ----
(***************************************************************************)
(* LM Studio Harmony Bridge: the streaming transformer                     *)
(* (LMStudioBridge._stream_transform), the block parser                    *)
(* (HarmonyParser.parse_block) and the output formatter (XMLFormatter).    *)
(*                                                                         *)
(* Text is a sequence of atoms.  An atom is an indivisible piece of text:  *)
(* a whole Harmony marker, one half of a channel marker, a word, a space,  *)
(* a JSON payload.  The only two atoms whose concatenation makes another   *)
(* atom are the halves of the channel marker; Cat joins them, so that a    *)
(* text has one representation and a marker split over two fragments is    *)
(* a marker once both fragments are in the buffer.                         *)
(***************************************************************************)
EXTENDS Integers, Sequences, FiniteSets, TLC

\* ---------------------------------------------------------------- bounds
\* Upstream lines one connection reads before the stream must end.
MaxLines == 3
\* Connections the server holds state for.
NumConns == 2
\* The upstream lines each of several interleaved connections reads.
MultiLines == 1

Conns == 1..NumConns

\* ----------------------------------------------------------------- atoms
CH    == "<|channel|>"
CHa   == "<|chan"
CHb   == "nel|>"
MSGa  == "<|mess"
MSGb  == "age|>"
MSG   == "<|message|>"
CON   == "<|constrain|>"
START == "<|start|>"
SP    == " "
TO    == "to="
FPREFIX == "functions."
NL    == "\n"
PAYLOAD == "{\"q\":\"cats\"}"

\* \w+ of CHANNEL_PATTERN: atoms made of word characters only.
WordAtoms == {"final", "analysis", "commentary", "json", "other",
              "Hello", "world", "thinking", "search", "read", "cats", "q"}
\* \s of CHANNEL_PATTERN.
SpaceAtoms == {SP, NL}
\* Atoms that begin with '<'.
AngleAtoms == {CH, CHa, MSG, MSGa, CON, START}
\* Every atom of upstream text.
Atoms == WordAtoms \cup SpaceAtoms \cup AngleAtoms \cup {TO, FPREFIX, CHb, MSGb, PAYLOAD}
\* [^<\s]+ of CHANNEL_PATTERN: atoms with no '<' and no white space.
RecipientAtoms == Atoms \ (AngleAtoms \cup SpaceAtoms)

\* ------------------------------------------------------------------ text
Last(s) == s[Len(s)]

\* Python's str + str on texts (st.buf += content, final_message += content).
Cat(a, b) ==
  IF a # <<>> /\ b # <<>> /\ Last(a) = CHa /\ Head(b) = CHb
  THEN SubSeq(a, 1, Len(a) - 1) \o <<CH>> \o Tail(b)
  ELSE IF a # <<>> /\ b # <<>> /\ Last(a) = MSGa /\ Head(b) = MSGb
  THEN SubSeq(a, 1, Len(a) - 1) \o <<MSG>> \o Tail(b)
  ELSE a \o b

\* The positions of `atom` in s, ascending (re.finditer / the `in` operator).
Positions(s, atom) == {i \in 1..Len(s) : s[i] = atom}

\* The k-th smallest element of a finite set of integers.
RECURSIVE Nth(_, _)
Nth(S, k) ==
  LET m == CHOOSE x \in S : \A y \in S : x <= y
  IN IF k = 1 THEN m ELSE Nth(S \ {m}, k - 1)

\* The end of the longest run of atoms of class S that starts at i
\* (i - 1 when s[i] is not in S): a greedy + or * of the pattern.
RunEnd(s, i, S) ==
  CHOOSE j \in (i - 1)..Len(s) :
    /\ \A k \in i..j : s[k] \in S
    /\ j = Len(s) \/ s[j + 1] \notin S

\* str.rstrip() in place of str.strip(): trailing white space only.
strip_trailing_only(s) ==
  LET keep == {i \in 1..Len(s) : s[i] \notin SpaceAtoms}
  IN IF keep = {} THEN <<>>
     ELSE SubSeq(s, 1, CHOOSE j \in keep : \A k \in keep : k <= j)

\* str.strip(): leading and trailing white space removed.
strip(s) ==
  LET keep == {i \in 1..Len(s) : s[i] \notin SpaceAtoms}
  IN IF keep = {} THEN <<>>
     ELSE SubSeq(s, CHOOSE i \in keep : \A k \in keep : i <= k,
                    CHOOSE j \in keep : \A k \in keep : k <= j)

\* The characters of a text as one string.
RECURSIVE JoinStr(_)
JoinStr(s) == IF s = <<>> THEN "" ELSE Head(s) \o JoinStr(Tail(s))

\* HarmonyParser.has_harmony
has_harmony(text) ==
  \E i \in 1..Len(text) : text[i] \in {CH, MSG, START}

\* ------------------------------------------------------- HarmonyParser
\* The tail of one CHANNEL_PATTERN header, matched at position q:
\*   (?:\s*<\|constrain\|>(?P<constrain>\w+))?<\|message\|>
HeaderTail(s, q) ==
  LET sp == RunEnd(s, q, SpaceAtoms)
      w  == RunEnd(s, sp + 2, WordAtoms)
  IN IF /\ sp + 1 <= Len(s) /\ s[sp + 1] = CON
        /\ w >= sp + 2 /\ w + 1 <= Len(s) /\ s[w + 1] = MSG
     THEN [ok |-> TRUE, constrain |-> SubSeq(s, sp + 2, w), start |-> w + 2]
     ELSE IF q <= Len(s) /\ s[q] = MSG
     THEN [ok |-> TRUE, constrain |-> <<>>, start |-> q + 1]
     ELSE [ok |-> FALSE, constrain |-> <<>>, start |-> q]

\* One match of CHANNEL_PATTERN that starts at position i, where s[i] is the
\* channel marker: the channel name, the optional recipient, the optional
\* constraint, the message marker, and the content up to the next channel
\* marker or the end of the text.
MatchAt(s, i) ==
  LET c   == RunEnd(s, i + 1, WordAtoms)
      sp  == RunEnd(s, c + 1, SpaceAtoms)
      r   == RunEnd(s, sp + 2, RecipientAtoms)
      hasTo == /\ sp >= c + 1 /\ sp + 1 <= Len(s) /\ s[sp + 1] = TO
               /\ r >= sp + 2
      withTo == HeaderTail(s, r + 1)
      noTo   == HeaderTail(s, c + 1)
      useTo  == hasTo /\ withTo.ok
      tail   == IF useTo THEN withTo ELSE noTo
      later  == {k \in Positions(s, CH) : k >= tail.start}
      stop   == IF later = {} THEN Len(s)
                ELSE (CHOOSE k \in later : \A n \in later : k <= n) - 1
  IN IF c >= i + 1 /\ tail.ok
     THEN [ok |-> TRUE,
           channel   |-> SubSeq(s, i + 1, c),
           recipient |-> IF useTo THEN SubSeq(s, sp + 2, r) ELSE <<>>,
           constrain |-> tail.constrain,
           content   |-> SubSeq(s, tail.start, stop),
           next      |-> stop + 1]
     ELSE [ok |-> FALSE, channel |-> <<>>, recipient |-> <<>>,
           constrain |-> <<>>, content |-> <<>>, next |-> i + 1]

\* CHANNEL_PATTERN.finditer(block): the matches from position i on, in order.
RECURSIVE finditer(_, _)
finditer(s, i) ==
  IF i > Len(s) THEN <<>>
  ELSE IF s[i] # CH THEN finditer(s, i + 1)
  ELSE LET m == MatchAt(s, i)
       IN IF m.ok THEN <<m>> \o finditer(s, m.next)
          ELSE finditer(s, i + 1)

\* json.loads(content) of a tool call: the one JSON document of the
\* alphabet is PAYLOAD; every other non-empty text raises JSONDecodeError.
IsJson(content) == content = <<PAYLOAD>>

JsonLoads(content) == <<[k |-> "q", v |-> <<"cats">>]>>

\* The arguments of a commentary segment that has a recipient.
ToolArguments(constrain, content) ==
  IF constrain = <<"json">>
  THEN IF content = <<>> THEN <<>>
       ELSE IF IsJson(content) THEN JsonLoads(content)
       ELSE <<[k |-> "raw", v |-> content]>>
  ELSE <<[k |-> "raw", v |-> content]>>

\* recipient.replace('functions.', '')
ToolName(recipient) == JoinStr(SelectSeq(recipient, LAMBDA a : a # FPREFIX))

EmptyResult ==
  [final_message |-> <<>>, analysis |-> <<>>, tool_calls |-> <<>>,
   commentary |-> <<>>]

\* The body of parse_block's loop: one match folded into the result.
\* Every group is stripped, the content too.
AddSegment(result, m) ==
  LET channel   == strip(m.channel)
      recipient == strip(m.recipient)
      constrain == strip(m.constrain)
      content   == strip(m.content)
  IN IF channel = <<"final">>
     THEN [result EXCEPT !.final_message = Cat(@, content)]
     ELSE IF channel = <<"analysis">>
     THEN [result EXCEPT !.analysis = Append(@, content)]
     ELSE IF channel = <<"commentary">>
     THEN IF recipient # <<>>
          THEN [result EXCEPT !.tool_calls =
                  Append(@, [name |-> ToolName(recipient),
                             arguments |-> ToolArguments(constrain, content)])]
          ELSE [result EXCEPT !.commentary = Append(@, content)]
     ELSE result

RECURSIVE FoldSegments(_, _)
FoldSegments(result, ms) ==
  IF ms = <<>> THEN result
  ELSE FoldSegments(AddSegment(result, Head(ms)), Tail(ms))

\* HarmonyParser.parse_block
parse_block(block) == FoldSegments(EmptyResult, finditer(block, 1))

\* -------------------------------------------------------- XMLFormatter
\* XMLFormatter._esc on one atom: & < > " ' replaced by their entities.
EscAtom(a) ==
  CASE a = CH      -> "&lt;|channel|&gt;"
    [] a = CHa     -> "&lt;|chan"
    [] a = CHb     -> "nel|&gt;"
    [] a = MSG     -> "&lt;|message|&gt;"
    [] a = CON     -> "&lt;|constrain|&gt;"
    [] a = START   -> "&lt;|start|&gt;"
    [] a = PAYLOAD -> "{&quot;q&quot;:&quot;cats&quot;}"
    [] OTHER       -> a

\* XMLFormatter._esc
_esc(s) == [i \in 1..Len(s) |-> EscAtom(s[i])]

\* The strings tool_calls_to_xml appends to `parts` for one argument list.
RECURSIVE ArgParts(_)
ArgParts(args) ==
  IF args = <<>> THEN <<>>
  ELSE LET a == Head(args)
       IN << <<"<" \o a.k \o ">">> \o _esc(a.v) \o <<"</" \o a.k \o ">">> >>
          \o ArgParts(Tail(args))

\* The strings tool_calls_to_xml appends to `parts`, one call after another.
RECURSIVE XmlParts(_)
XmlParts(tool_calls) ==
  IF tool_calls = <<>> THEN <<>>
  ELSE LET tc == Head(tool_calls)
       IN << <<"<" \o tc.name \o ">">> >>
          \o ArgParts(tc.arguments)
          \o << <<"</" \o tc.name \o ">">> >>
          \o XmlParts(Tail(tool_calls))

\* ''.join(parts) in place of '\n'.join(parts).
RECURSIVE JoinLines_unseparated(_)
JoinLines_unseparated(parts) ==
  IF parts = <<>> THEN <<>>
  ELSE Head(parts) \o JoinLines_unseparated(Tail(parts))

\* '\n'.join(parts)
RECURSIVE JoinLines(_)
JoinLines(parts) ==
  IF parts = <<>> THEN <<>>
  ELSE IF Len(parts) = 1 THEN Head(parts)
  ELSE Head(parts) \o <<NL>> \o JoinLines(Tail(parts))

\* XMLFormatter.tool_calls_to_xml
tool_calls_to_xml(tool_calls) == JoinLines(XmlParts(tool_calls))

\* json.dumps on one atom of a string value (ensure_ascii=False).
JsonEscAtom(a) ==
  CASE a = PAYLOAD -> "{\\\"q\\\":\\\"cats\\\"}"
    [] a = NL      -> "\\n"
    [] OTHER       -> a

\* json.dumps(arguments, ensure_ascii=False) of an arguments mapping.
RECURSIVE DumpsItems(_)
DumpsItems(args) ==
  IF args = <<>> THEN <<>>
  ELSE LET a == Head(args)
       IN <<"\"" \o a.k \o "\": \"">>
          \o [i \in 1..Len(a.v) |-> JsonEscAtom(a.v[i])]
          \o <<"\"">>
          \o (IF Len(args) > 1 THEN <<", ">> ELSE <<>>)
          \o DumpsItems(Tail(args))

JsonDumps(args) == <<"{">> \o DumpsItems(args) \o <<"}">>

\* The id of the i-th call of one list: f'call_{i}_{abs(hash(name)) % 10000}'.
CallId(i, name, hash) ==
  "call_" \o ToString(i) \o "_" \o ToString(hash[name])

\* XMLFormatter.tool_calls_to_openai; enumerate counts from 0.
tool_calls_to_openai(tool_calls, hash) ==
  [i \in 1..Len(tool_calls) |->
     [id   |-> CallId(i - 1, tool_calls[i].name, hash),
      type |-> "function",
      function |-> [name |-> tool_calls[i].name,
                    arguments |-> JsonDumps(tool_calls[i].arguments)]]]

\* ------------------------------------------------------ LMStudioBridge
\* The delta of one chunk: has names the key the delta carries.
ContentDelta(text) == [has |-> "content", content |-> text, tool_calls |-> <<>>]
ToolCallsDelta(calls) == [has |-> "tool_calls", content |-> <<>>, tool_calls |-> calls]
EmptyDelta == [has |-> "none", content |-> <<>>, tool_calls |-> <<>>]

\* delta.get('content', '')
ContentOf(chunk) ==
  IF chunk.delta.has = "content" THEN chunk.delta.content ELSE <<>>

\* LMStudioBridge._make_base_chunk_like: the id of the base chunk, an empty delta.
_make_base_chunk_like(base_id) == [id |-> base_id, delta |-> EmptyDelta]

\* The id _make_base_chunk_like gives a chunk made from {} (the flush).
DefaultChunkId == "chunk"

\* What one parsed block adds to `outputs`: the tool calls when there are
\* any (as XML text or as a call list), else the final message when it is
\* not empty, else nothing.
BlockOutputs(parsed, base_id, xml, hash) ==
  LET out_chunk == _make_base_chunk_like(base_id)
  IN IF parsed.tool_calls # <<>>
     THEN IF xml
          THEN LET text == tool_calls_to_xml(parsed.tool_calls)
               IN IF strip(text) # <<>>
                  THEN << [out_chunk EXCEPT !.delta = ContentDelta(text)] >>
                  ELSE <<>>
          ELSE LET calls == tool_calls_to_openai(parsed.tool_calls, hash)
               IN IF calls # <<>>
                  THEN << [out_chunk EXCEPT !.delta = ToolCallsDelta(calls)] >>
                  ELSE <<>>
     ELSE IF parsed.final_message # <<>>
     THEN << [out_chunk EXCEPT !.delta = ContentDelta(parsed.final_message)] >>
     ELSE <<>>

\* The loop of _extract_ready_blocks over blocks i..n-1 of the n markers.
RECURSIVE ReadyOutputs(_, _, _, _, _, _)
ReadyOutputs(b, markers, i, base_id, xml, hash) ==
  IF i > Cardinality(markers) - 1 THEN <<>>
  ELSE LET start == Nth(markers, i)
           end   == Nth(markers, i + 1)
           block == SubSeq(b, start, end - 1)
       IN BlockOutputs(parse_block(block), base_id, xml, hash)
          \o ReadyOutputs(b, markers, i + 1, base_id, xml, hash)

\* _extract_ready_blocks with markers[0] for markers[-1] in line 264: the
\* buffer is cut at its first marker.
_extract_ready_blocks_first_marker(b, base_id, xml, hash) ==
  LET markers == Positions(b, CH)
  IN IF Cardinality(markers) <= 1
     THEN [outputs |-> <<>>, remaining |-> b]
     ELSE [outputs   |-> ReadyOutputs(b, markers, 1, base_id, xml, hash),
           remaining |-> SubSeq(b, Nth(markers, 1), Len(b))]

\* _extract_ready_blocks with `len(markers) < 1` for the test of line 238: a
\* buffer with one marker is cut at that marker.
_extract_ready_blocks_one_marker(b, base_id, xml, hash) ==
  LET markers == Positions(b, CH)
  IN IF Cardinality(markers) < 1
     THEN [outputs |-> <<>>, remaining |-> b]
     ELSE [outputs   |-> ReadyOutputs(b, markers, 1, base_id, xml, hash),
           remaining |-> SubSeq(b, Nth(markers, Cardinality(markers)), Len(b))]

\* _extract_ready_blocks without the truncation of line 264: the buffer is
\* returned whole.
_extract_ready_blocks_untruncated(b, base_id, xml, hash) ==
  LET markers == Positions(b, CH)
  IN IF Cardinality(markers) <= 1
     THEN [outputs |-> <<>>, remaining |-> b]
     ELSE [outputs   |-> ReadyOutputs(b, markers, 1, base_id, xml, hash),
           remaining |-> b]

\* LMStudioBridge._extract_ready_blocks
_extract_ready_blocks(b, base_id, xml, hash) ==
  LET markers == Positions(b, CH)
  IN IF Cardinality(markers) <= 1
     THEN [outputs |-> <<>>, remaining |-> b]
     ELSE [outputs   |-> ReadyOutputs(b, markers, 1, base_id, xml, hash),
           remaining |-> SubSeq(b, Nth(markers, Cardinality(markers)), Len(b))]

\* _flush_harmony_buffer falling back to the buffered text when the parser
\* finds nothing to emit in it.
_flush_harmony_buffer_raw(b, xml, hash) ==
  IF strip(b) = <<>> THEN <<>>
  ELSE LET outs == BlockOutputs(parse_block(b), DefaultChunkId, xml, hash)
       IN IF outs # <<>> THEN outs
          ELSE << [_make_base_chunk_like(DefaultChunkId)
                     EXCEPT !.delta = ContentDelta(strip(b))] >>

\* LMStudioBridge._flush_harmony_buffer
_flush_harmony_buffer(b, xml, hash) ==
  IF strip(b) = <<>> THEN <<>>
  ELSE BlockOutputs(parse_block(b), DefaultChunkId, xml, hash)

\* One HTTP body: JSON that decodes to an object with one choice (its
\* message and finish_reason), JSON that decodes to an object with an error,
\* JSON that decodes to an array, text that does not decode, or none.
Body(kind, message, finish_reason, error) ==
  [kind |-> kind, message |-> message, finish_reason |-> finish_reason,
   error |-> error]

NoBody == Body("none", EmptyDelta, "", "")
Completion(message, finish_reason) == Body("object", message, finish_reason, "")
ErrorBody(type) == Body("object", EmptyDelta, "", type)

\* web.Response(text=text): the upstream text as received.
RawResponse(body) == [status |-> 200, via |-> "text", body |-> body]
\* web.json_response(data, status=...)
json_response(data, status) == [status |-> status, via |-> "json", body |-> data]
NoResponse == [status |-> 0, via |-> "none", body |-> NoBody]

\* The transform of lines 298-324 on a decoded object.
NonStreamData(data, xml, hash) ==
  LET raw == IF data.message.has = "content" THEN data.message.content ELSE <<>>
      parsed == parse_block(raw)
  IN IF has_harmony(raw)
     THEN IF parsed.tool_calls # <<>>
          THEN IF xml
               THEN Completion(
                      ContentDelta(tool_calls_to_xml(parsed.tool_calls)), "stop")
               ELSE Completion(
                      ToolCallsDelta(tool_calls_to_openai(parsed.tool_calls, hash)),
                      "tool_calls")
          ELSE Completion(ContentDelta(parsed.final_message), "stop")
     ELSE data

\* _nonstream_transform with the handler of lines 325-327 returning the
\* upstream text in place of the error response.
_nonstream_transform_raw_on_error(body, xml, hash) ==
  IF body.kind = "text" THEN RawResponse(body)
  ELSE IF body.kind # "object" THEN RawResponse(body)
  ELSE json_response(NonStreamData(body, xml, hash), 200)

\* LMStudioBridge._nonstream_transform: a body that lm_resp.json() rejects
\* is returned as text; a decoded value that is no object makes data.get
\* raise, which the handler of lines 325-327 answers with an error.
_nonstream_transform(body, xml, hash) ==
  IF body.kind = "text" THEN RawResponse(body)
  ELSE IF body.kind # "object" THEN json_response(ErrorBody("proxy_error"), 500)
  ELSE json_response(NonStreamData(body, xml, hash), 200)

\* --------------------------------------------------------------- inputs
\* The content of the upstream chunks a connection may receive.
Fragments ==
  { <<CH, "analysis", MSG, "thinking">>,
    <<CH, "final", MSG, "Hello">>,
    <<CH, "final", MSG, SP, "world">>,
    <<CHa>>,
    <<CHb, "final", MSG, "Hello">>,
    <<CH, "commentary", SP, TO, FPREFIX, "search", SP, CON, "json", MSG, PAYLOAD>>,
    <<CH, "commentary", SP, TO, FPREFIX, "read", MSG, "Hello">>,
    <<"Hello">>,
    <<CON, "json">>,
    <<MSG, "world">> }

UpstreamId == "cmpl-1"

\* The JSON objects an upstream 'data: ' line may decode to: a chunk whose
\* delta carries content, and a chunk whose delta carries none.
Chunks ==
  {[id |-> UpstreamId, delta |-> ContentDelta(f)] : f \in Fragments}
    \cup {[id |-> UpstreamId, delta |-> EmptyDelta]}

\* Upstream text cut into fragments at other places than the channel
\* markers: markers that arrive cut in two, two segments in one fragment;
\* and the segments that are to stay hidden: analysis, commentary without a
\* recipient, and a channel the parser does not know.
SplitFragments ==
  { <<CHa>>,
    <<CHb, "analysis", MSGa>>,
    <<MSGb, "thinking">>,
    <<CH, "analysis", MSG, "thinking">>,
    <<CH, "commentary", MSG, "thinking">>,
    <<CH, "other", MSG, "cats">>,
    <<CH, "final", MSG, "Hello">>,
    <<CH, "final", MSG, "Hello", CH, "final", MSG, SP, "world">> }

SplitChunks ==
  {[id |-> UpstreamId, delta |-> ContentDelta(f)] : f \in SplitFragments}

\* The content of the chunks of interleaved connections: plain text, which
\* an idle connection relays, and a final segment, which engages it.
MultiFragments ==
  { <<"Hello">>,
    <<CH, "final", MSG, "Hello">> }

MultiChunks ==
  {[id |-> UpstreamId, delta |-> ContentDelta(f)] : f \in MultiFragments}

\* The bodies the upstream may answer a non-stream request with.
Bodies ==
  {Completion(ContentDelta(f), "stop") : f \in Fragments}
    \cup {Completion(EmptyDelta, "stop"), Body("array", EmptyDelta, "", ""),
          Body("text", EmptyDelta, "", "")}

ToolNames == {"search", "read"}
\* abs(hash(name)) % 10000 of the tool names: Python salts str hashes per
\* process, so the residues are any values, equal or not.
HashFns ==
  { [n \in ToolNames |-> 1234],
    [n \in ToolNames |-> IF n = "search" THEN 1234 ELSE 5678] }

\* ---------------------------------------------------------------- state
VARIABLES
  xml_mode,      \* LMStudioBridge.xml_mode
  hashOf,        \* the process's hash residue of each tool name
  req_id,        \* LMStudioBridge.req_id
  pc,            \* per connection: "idle", "stream", "closed"
  rid,           \* per connection: the request id of its handler
  harmony_mode,  \* per connection: HarmonyStreamState.harmony_mode
  buf,           \* per connection: HarmonyStreamState.buf
  written,       \* per connection: what resp.write has sent, in order
  chunks,        \* per connection: the chunks decoded so far, in order
  nread,         \* per connection: upstream lines read so far
  lm_resp,       \* per connection: the upstream body of a non-stream request
  response       \* per connection: the response of a non-stream request

vars == <<xml_mode, hashOf, req_id, pc, rid, harmony_mode, buf, written,
          chunks, nread, lm_resp, response>>

\* One write to the client.
PassLine(chunk) == [kind |-> "pass", chunk |-> chunk]
DataLine(chunk) == [kind |-> "data", chunk |-> chunk]
\* The sentinel b"data: [DONE]\n\n": it carries no chunk, the field is a filler.
DoneLine == [kind |-> "done", chunk |-> _make_base_chunk_like("")]

\* f"data: {json.dumps(out_chunk)}\n\n" for every chunk of a list.
DataLines(outs) == [i \in 1..Len(outs) |-> DataLine(outs[i])]

Init ==
  /\ xml_mode \in BOOLEAN
  /\ hashOf \in HashFns
  /\ req_id = 0
  /\ pc = [c \in Conns |-> "idle"]
  /\ rid = [c \in Conns |-> 0]
  /\ harmony_mode = [c \in Conns |-> FALSE]
  /\ buf = [c \in Conns |-> <<>>]
  /\ written = [c \in Conns |-> <<>>]
  /\ chunks = [c \in Conns |-> <<>>]
  /\ nread = [c \in Conns |-> 0]
  /\ lm_resp = [c \in Conns |-> NoBody]
  /\ response = [c \in Conns |-> NoResponse]

\* handle_chat_completions with stream=true, up to the first read of
\* _stream_transform: a request id is taken, the response is prepared and a
\* fresh HarmonyStreamState is made.
StartStream(c) ==
  /\ pc[c] = "idle"
  /\ req_id' = req_id + 1
  /\ rid' = [rid EXCEPT ![c] = req_id + 1]
  /\ pc' = [pc EXCEPT ![c] = "stream"]
  /\ harmony_mode' = [harmony_mode EXCEPT ![c] = FALSE]
  /\ buf' = [buf EXCEPT ![c] = <<>>]
  /\ UNCHANGED <<lm_resp, response>>
  /\ UNCHANGED <<xml_mode, hashOf, written, chunks, nread>>

CanRead(c) == pc[c] = "stream" /\ nread[c] < MaxLines

\* A line that is empty after strip(): `continue`.
BlankLine(c) ==
  /\ CanRead(c)
  /\ nread' = [nread EXCEPT ![c] = @ + 1]
  /\ UNCHANGED <<lm_resp, response>>
  /\ UNCHANGED <<xml_mode, hashOf, req_id, pc, rid, harmony_mode, buf,
                 written, chunks>>

\* A line that does not start with 'data: ': `continue`.
NoPrefixLine(c) ==
  /\ CanRead(c)
  /\ nread' = [nread EXCEPT ![c] = @ + 1]
  /\ UNCHANGED <<lm_resp, response>>
  /\ UNCHANGED <<xml_mode, hashOf, req_id, pc, rid, harmony_mode, buf,
                 written, chunks>>

\* A 'data: ' line whose payload json.loads rejects: `continue`.
\* The JSONDecodeError of line 193 left uncaught: the connection ends.
MalformedLine_fatal(c) ==
  /\ CanRead(c)
  /\ nread' = [nread EXCEPT ![c] = @ + 1]
  /\ pc' = [pc EXCEPT ![c] = "closed"]
  /\ UNCHANGED <<lm_resp, response>>
  /\ UNCHANGED <<xml_mode, hashOf, req_id, rid, harmony_mode, buf, written,
                 chunks>>

MalformedLine(c) ==
  /\ CanRead(c)
  /\ nread' = [nread EXCEPT ![c] = @ + 1]
  /\ UNCHANGED <<lm_resp, response>>
  /\ UNCHANGED <<xml_mode, hashOf, req_id, pc, rid, harmony_mode, buf,
                 written, chunks>>

\* The condition of line 202 without the has_harmony test: any content is
\* buffered.
EntersBuffer_eager(content, mode) == content # <<>> \/ mode

\* The condition of line 202 without `or st.harmony_mode`.
EntersBuffer_forgetful(content, mode) ==
  content # <<>> /\ has_harmony(content)

\* The condition of line 202: buffer on a Harmony token or once engaged.
EntersBuffer(content, mode) ==
  (content # <<>> /\ has_harmony(content)) \/ mode

\* st.buf after lines 204-205 with `=` in place of `+=`.
Appended_overwrite(b, content) == IF content # <<>> THEN content ELSE b

\* st.buf after lines 204-205.
Appended(b, content) == IF content # <<>> THEN Cat(b, content) ELSE b

\* ChunkLine with the HarmonyStreamState of line 170 kept on the bridge,
\* one for all connections, instead of one per call: the step of one
\* connection sets the flag and the buffer of every connection.
ChunkLine_shared(c, chunk) ==
  LET content == ContentOf(chunk)
  IN /\ CanRead(c)
     /\ nread' = [nread EXCEPT ![c] = @ + 1]
     /\ chunks' = [chunks EXCEPT ![c] = Append(@, chunk)]
     /\ IF EntersBuffer(content, harmony_mode[c])
        THEN LET r == _extract_ready_blocks(Appended(buf[c], content),
                                            chunk.id, xml_mode, hashOf)
             IN /\ harmony_mode' = [d \in Conns |-> TRUE]
                /\ buf' = [d \in Conns |-> r.remaining]
                /\ written' = [written EXCEPT ![c] = @ \o DataLines(r.outputs)]
        ELSE /\ written' = [written EXCEPT ![c] = Append(@, PassLine(chunk))]
             /\ UNCHANGED <<harmony_mode, buf>>
     /\ UNCHANGED <<lm_resp, response>>
     /\ UNCHANGED <<xml_mode, hashOf, req_id, pc, rid>>

\* A 'data: ' line that decodes to a chunk: buffered and translated, or
\* passed through unchanged.
ChunkLine(c, chunk) ==
  LET content == ContentOf(chunk)
      ready   == _extract_ready_blocks(Appended(buf[c], content), chunk.id,
                                       xml_mode, hashOf)
  IN /\ CanRead(c)
     /\ nread' = [nread EXCEPT ![c] = @ + 1]
     /\ chunks' = [chunks EXCEPT ![c] = Append(@, chunk)]
     /\ IF EntersBuffer(content, harmony_mode[c])
        THEN /\ harmony_mode' = [harmony_mode EXCEPT ![c] = TRUE]
             /\ buf' = [buf EXCEPT ![c] = ready.remaining]
             /\ written' = [written EXCEPT ![c] = @ \o DataLines(ready.outputs)]
        ELSE /\ written' = [written EXCEPT ![c] = Append(@, PassLine(chunk))]
             /\ UNCHANGED <<harmony_mode, buf>>
     /\ UNCHANGED <<lm_resp, response>>
     /\ UNCHANGED <<xml_mode, hashOf, req_id, pc, rid>>

\* The [DONE] branch without the `break` of line 187: the loop goes on.
DoneReceived_no_break(c) ==
  /\ pc[c] = "stream"
  /\ written' = [written EXCEPT ![c] =
       @ \o DataLines(_flush_harmony_buffer(buf[c], xml_mode, hashOf))
         \o <<DoneLine>>]
  /\ buf' = [buf EXCEPT ![c] = <<>>]
  /\ UNCHANGED <<lm_resp, response>>
  /\ UNCHANGED <<xml_mode, hashOf, req_id, pc, rid, harmony_mode, chunks, nread>>

\* The line 'data: [DONE]': the buffer is flushed, the sentinel is written,
\* the loop is left and the response is closed.
DoneReceived(c) ==
  /\ pc[c] = "stream"
  /\ written' = [written EXCEPT ![c] =
       @ \o DataLines(_flush_harmony_buffer(buf[c], xml_mode, hashOf))
         \o <<DoneLine>>]
  /\ buf' = [buf EXCEPT ![c] = <<>>]
  /\ pc' = [pc EXCEPT ![c] = "closed"]
  /\ UNCHANGED <<lm_resp, response>>
  /\ UNCHANGED <<xml_mode, hashOf, req_id, rid, harmony_mode, chunks, nread>>

\* A 'data: ' line that decodes to JSON that is no object: chunk.get raises,
\* the except clause logs it and the response is closed.
NonObjectLine(c) ==
  /\ CanRead(c)
  /\ nread' = [nread EXCEPT ![c] = @ + 1]
  /\ pc' = [pc EXCEPT ![c] = "closed"]
  /\ UNCHANGED <<lm_resp, response>>
  /\ UNCHANGED <<xml_mode, hashOf, req_id, rid, harmony_mode, buf, written,
                 chunks>>

\* The except clause flushing the buffer before the response is closed.
UpstreamError_flushing(c) ==
  /\ pc[c] = "stream"
  /\ written' = [written EXCEPT ![c] =
       @ \o DataLines(_flush_harmony_buffer(buf[c], xml_mode, hashOf))]
  /\ pc' = [pc EXCEPT ![c] = "closed"]
  /\ UNCHANGED <<lm_resp, response>>
  /\ UNCHANGED <<xml_mode, hashOf, req_id, rid, harmony_mode, buf, chunks,
                 nread>>

\* Reading the next line raises (the upstream connection failed): the
\* except clause logs it and the response is closed.
UpstreamError(c) ==
  /\ pc[c] = "stream"
  /\ pc' = [pc EXCEPT ![c] = "closed"]
  /\ UNCHANGED <<lm_resp, response>>
  /\ UNCHANGED <<xml_mode, hashOf, req_id, rid, harmony_mode, buf, written,
                 chunks, nread>>

\* The upstream body ends without a 'data: [DONE]' line: the loop ends and
\* the response is closed.
UpstreamEOF(c) ==
  /\ pc[c] = "stream"
  /\ pc' = [pc EXCEPT ![c] = "closed"]
  /\ UNCHANGED <<lm_resp, response>>
  /\ UNCHANGED <<xml_mode, hashOf, req_id, rid, harmony_mode, buf, written,
                 chunks, nread>>

Step(c) ==
  \/ StartStream(c)
  \/ UpstreamError(c)
  \/ UpstreamEOF(c)
  \/ DoneReceived(c)
  \/ BlankLine(c)
  \/ NoPrefixLine(c)
  \/ MalformedLine(c)
  \/ \E chunk \in Chunks : ChunkLine(c, chunk)
  \/ NonObjectLine(c)

\* One streaming connection in flight.
Next == Step(1)

Spec == Init /\ [][Next]_vars

\* handle_chat_completions on a request body that is not JSON: the request
\* is answered with 400 and never forwarded.
BadRequest(c) ==
  /\ pc[c] = "idle"
  /\ req_id' = req_id + 1
  /\ rid' = [rid EXCEPT ![c] = req_id + 1]
  /\ response' = [response EXCEPT ![c] = json_response(ErrorBody("bad_request"), 400)]
  /\ pc' = [pc EXCEPT ![c] = "answered"]
  /\ UNCHANGED <<xml_mode, hashOf, harmony_mode, buf, written, chunks, nread,
                 lm_resp>>

\* handle_chat_completions with stream=false: the upstream answers with
\* `body`, _nonstream_transform makes the response.
NonStreamRequest(c, body) ==
  /\ pc[c] = "idle"
  /\ req_id' = req_id + 1
  /\ rid' = [rid EXCEPT ![c] = req_id + 1]
  /\ lm_resp' = [lm_resp EXCEPT ![c] = body]
  /\ response' = [response EXCEPT ![c] = _nonstream_transform(body, xml_mode, hashOf)]
  /\ pc' = [pc EXCEPT ![c] = "answered"]
  /\ UNCHANGED <<xml_mode, hashOf, harmony_mode, buf, written, chunks, nread>>

NonStreamStep(c) ==
  \/ BadRequest(c)
  \/ \E body \in Bodies : NonStreamRequest(c, body)

\* Non-stream requests only, on every connection.
NextNonStream == \E c \in Conns : NonStreamStep(c)

SpecNonStream == Init /\ [][NextNonStream]_vars

\* Several streaming connections in flight at once: aiohttp runs one
\* handler per request on one event loop, and a handler yields at every
\* await, so the steps of the connections interleave in any order.
MultiStep(c) ==
  \/ StartStream(c)
  \/ UpstreamError(c)
  \/ DoneReceived(c)
  \/ \E chunk \in MultiChunks : nread[c] < MultiLines /\ ChunkLine(c, chunk)

NextMulti == \E c \in Conns : MultiStep(c)

SpecMulti == Init /\ [][NextMulti]_vars

\* One streaming connection whose upstream sends the text of SplitFragments.
SplitStep(c) ==
  \/ StartStream(c)
  \/ UpstreamEOF(c)
  \/ DoneReceived(c)
  \/ \E chunk \in SplitChunks : ChunkLine(c, chunk)

NextSplit == SplitStep(1)

SpecSplit == Init /\ [][NextSplit]_vars

\* =============================================================== claims
\* What the client has received on a connection, derived from `written`
\* and from the history of decoded chunks.

\* The writes that carry a chunk (every write but the sentinel).
Emitted(w) == SelectSeq(w, LAMBDA e : e.kind # "done")

\* The deltas the client received, in order.
Deltas(w) == [i \in 1..Len(Emitted(w)) |-> Emitted(w)[i].chunk.delta]

\* The content text the client received, concatenated in order.
RECURSIVE ClientText(_)
ClientText(w) ==
  IF w = <<>> THEN <<>>
  ELSE Cat(ClientText(SubSeq(w, 1, Len(w) - 1)), ContentOf(Last(w).chunk))

\* The response ended with the sentinel.
EndedWithDone(c) ==
  pc[c] = "closed" /\ written[c] # <<>> /\ Last(written[c]) = DoneLine

RawMarkers == {CH, MSG, CON, START, TO}

\* C1: the content text written to the client, concatenated, never holds a
\* raw Harmony marker (channel, message, constrain, start, recipient).
C1_NoMarkerLeak ==
  \A c \in Conns :
    \A i \in 1..Len(ClientText(written[c])) :
      ClientText(written[c])[i] \notin RawMarkers

\* C2: a response that has been closed ends with the sentinel
\* 'data: [DONE]\n\n' as the last data written, whatever closed it.
C2_AlwaysEndsWithDone ==
  \A c \in Conns : pc[c] = "closed" => EndedWithDone(c)

\* The upstream stream as the transformer is specified to treat it, computed
\* from the whole history at once: the chunks before the first one that
\* carries a Harmony token are relayed, the content of the others is one
\* text, cut into blocks at its channel markers.

\* The content of the chunks of a history.
Contents(cs) == [i \in 1..Len(cs) |-> ContentOf(cs[i])]

RECURSIVE CatAll(_)
CatAll(ts) ==
  IF ts = <<>> THEN <<>>
  ELSE Cat(CatAll(SubSeq(ts, 1, Len(ts) - 1)), Last(ts))

\* The index of the first chunk that carries a Harmony token.
EngageAt(cs) ==
  LET hits == {i \in 1..Len(cs) : has_harmony(ContentOf(cs[i]))}
  IN IF hits = {} THEN Len(cs) + 1
     ELSE CHOOSE i \in hits : \A j \in hits : i <= j

\* The text received from the first Harmony token on.
EngagedText(cs) == CatAll(SubSeq(Contents(cs), EngageAt(cs), Len(cs)))

NumBlocks(t) == Cardinality(Positions(t, CH))

\* The k-th block of a text: from its k-th channel marker up to the next.
BlockOf(t, k) ==
  LET ms == Positions(t, CH)
  IN SubSeq(t, Nth(ms, k),
            IF k < Cardinality(ms) THEN Nth(ms, k + 1) - 1 ELSE Len(t))

\* The delta a block translates to, as a list of none or one.
Translation(block) ==
  LET outs == BlockOutputs(parse_block(block), DefaultChunkId, xml_mode, hashOf)
  IN [i \in 1..Len(outs) |-> [kind |-> "data", delta |-> outs[i].delta]]

RECURSIVE Translations(_, _, _)
Translations(t, from, to) ==
  IF from > to THEN <<>>
  ELSE Translation(BlockOf(t, from)) \o Translations(t, from + 1, to)

\* What the client is to have received for a history, in upstream order:
\* the relayed chunks, then one translation per terminated block, then,
\* once the stream was flushed, the translation of the trailing block.
Expected(cs, flushed) ==
  LET t == EngagedText(cs)
      n == NumBlocks(t)
  IN [i \in 1..(EngageAt(cs) - 1) |-> [kind |-> "pass", delta |-> cs[i].delta]]
     \o Translations(t, 1, IF flushed THEN n ELSE n - 1)

\* What the client has received: the kind and the delta of each write.
Received(w) ==
  [i \in 1..Len(Emitted(w)) |->
     [kind |-> Emitted(w)[i].kind, delta |-> Emitted(w)[i].chunk.delta]]

\* C3: the client receives the relayed fragments and the translated blocks
\* in the order of their sources in the upstream stream, each once.
C3_OrderPreserved ==
  \A c \in Conns :
    Received(written[c]) = Expected(chunks[c], EndedWithDone(c))

\* C3 witness: a flushed response that holds a relayed fragment, a block
\* translated while streaming and the trailing block.
C3_Witness ==
  /\ EndedWithDone(1)
  /\ Len(Received(written[1])) = 3
  /\ Received(written[1])[1].kind = "pass"
  /\ Received(written[1])[2].kind = "data"
  /\ Received(written[1])[2].delta # Received(written[1])[3].delta

\* No write of a step on connection c relays an upstream line.
NoPassAdded(c) ==
  \A i \in (Len(written[c]) + 1)..Len(written'[c]) :
    written'[c][i].kind # "pass"

\* C4: once harmony_mode is true it stays true, and from then on no step
\* relays an upstream fragment to the client, whatever the fragment holds.
C4_EngagedForever ==
  [][\A c \in Conns :
       harmony_mode[c] => harmony_mode'[c] /\ NoPassAdded(c)]_vars

\* C4 witness: after the connection engaged it received a fragment without
\* markup and a chunk without content, and relayed neither.
C4_Witness ==
  LET cs == chunks[1]
  IN /\ harmony_mode[1]
     /\ \E i, j \in (EngageAt(cs) + 1)..Len(cs) :
          /\ cs[i].delta = ContentDelta(<<"Hello">>)
          /\ cs[j].delta = EmptyDelta
     /\ \A k \in 1..Len(written[1]) : written[1][k].kind # "pass"

\* The whole upstream text of a history: the content of every chunk.
AllText(cs) == CatAll(Contents(cs))

\* The trailing block of a text that holds a channel marker.
TrailingBlock(t) == BlockOf(t, NumBlocks(t))

\* The text ends with a channel segment whose translation is not empty.
HasTrailingSegment(t) ==
  /\ NumBlocks(t) >= 1
  /\ finditer(TrailingBlock(t), 1) # <<>>
  /\ Translation(TrailingBlock(t)) # <<>>

\* The translated writes among what the client received.
DataReceived(w) == SelectSeq(Received(w), LAMBDA e : e.kind = "data")

\* C5: when the upstream stream ends with a channel segment that no later
\* marker terminates, its translation is written at the end-of-stream
\* flush, once: it is the last write before the sentinel, it was not
\* written while streaming, and no write repeats it.
C5_TrailingFlushedOnce ==
  \A c \in Conns :
    LET t == AllText(chunks[c])
        n == NumBlocks(t)
        d == DataReceived(written[c])
    IN HasTrailingSegment(t) =>
         /\ pc[c] = "stream" => d = Translations(t, 1, n - 1)
         /\ EndedWithDone(c) =>
              d = Translations(t, 1, n - 1) \o Translation(TrailingBlock(t))

\* The fragments of the scenario of C6, in order.
ScenarioFragments ==
  << <<CH, "analysis", MSG, "thinking">>,
     <<CH, "final", MSG, "Hello">>,
     <<CH, "final", MSG, SP, "world">> >>

\* The scenario's fragments, received from the start of a connection, give
\* one write with content "Hello" while streaming and one more write, with
\* content `flushed`, at the flush.
ScenarioYields(flushed) ==
  \A c \in Conns :
    Contents(chunks[c]) = ScenarioFragments =>
      /\ pc[c] = "stream" =>
           Received(written[c]) =
             << [kind |-> "data", delta |-> ContentDelta(<<"Hello">>)] >>
      /\ EndedWithDone(c) =>
           Received(written[c]) =
             << [kind |-> "data", delta |-> ContentDelta(<<"Hello">>)],
                [kind |-> "data", delta |-> ContentDelta(flushed)] >>

\* C6 as stated: the scenario emits "Hello" while streaming and the flush
\* emits " world", leading space included.
C6_ScenarioKeepsSpace == ScenarioYields(<<SP, "world">>)

\* C6 as amended: the scenario emits "Hello" while streaming and the flush
\* emits "world", the leading space stripped; nothing else is written
\* before the sentinel.
C6_ScenarioStripped == ScenarioYields(<<"world">>)

\* C6 witness: the scenario was received and flushed.
C6_Witness ==
  /\ Contents(chunks[1]) = ScenarioFragments
  /\ EndedWithDone(1)
  /\ Len(written[1]) = 3

\* A history with chunks i and i+1 replaced by one chunk that carries the
\* content of both.
Merged(cs, i) ==
  SubSeq(cs, 1, i - 1)
    \o << [cs[i] EXCEPT !.delta =
             ContentDelta(Cat(ContentOf(cs[i]), ContentOf(cs[i + 1])))] >>
    \o SubSeq(cs, i + 2, Len(cs))

\* Chunk i ends with the first half of a channel marker and chunk i+1
\* begins with the second half.
SplitAt(cs, i) ==
  /\ i + 1 <= Len(cs)
  /\ ContentOf(cs[i]) # <<>> /\ Last(ContentOf(cs[i])) = CHa
  /\ ContentOf(cs[i + 1]) # <<>> /\ Head(ContentOf(cs[i + 1])) = CHb

\* C7: when a channel marker is split over two consecutive fragments, the
\* client receives what it would have received had the marker arrived in
\* one fragment, and no write relays a half of the marker.
C7_SplitMarkerRecognized ==
  \A c \in Conns :
    \A i \in 1..Len(chunks[c]) :
      SplitAt(chunks[c], i) =>
        /\ Received(written[c]) =
             Expected(Merged(chunks[c], i), EndedWithDone(c))
        /\ \A k \in 1..Len(written[c]) :
             written[c][k].kind = "pass" =>
               \A n \in 1..Len(ContentOf(written[c][k].chunk)) :
                 ContentOf(written[c][k].chunk)[n] \notin {CHa, CHb}

\* The block holds one segment, a "final" one.
FinalOnly(block) ==
  /\ Len(finditer(block, 1)) = 1
  /\ finditer(block, 1)[1].channel = <<"final">>

\* The content of a block's one segment, as received.
SegmentContent(block) == finditer(block, 1)[1].content

\* A text without its leading and its trailing white space.
RECURSIVE Trimmed(_)
Trimmed(s) ==
  IF s = <<>> THEN <<>>
  ELSE IF Head(s) \in SpaceAtoms THEN Trimmed(Tail(s))
  ELSE IF Last(s) \in SpaceAtoms THEN Trimmed(SubSeq(s, 1, Len(s) - 1))
  ELSE s

\* The writes expected of the n blocks of t when each block gives the text
\* Text(content of its segment), and no write when that text is empty.
FinalWrites(t, n, Text(_)) ==
  SelectSeq([k \in 1..n |->
               [kind  |-> "data",
                delta |-> ContentDelta(Text(SegmentContent(BlockOf(t, k))))]],
            LAMBDA e : e.delta.content # <<>>)

\* On a flushed connection whose blocks each hold only a "final" segment,
\* the translated writes are the blocks' texts, in order.
FinalBlocksGive(Text(_)) ==
  \A c \in Conns :
    LET t == EngagedText(chunks[c])
        n == NumBlocks(t)
    IN (/\ EndedWithDone(c)
        /\ n >= 1
        /\ \A k \in 1..n : FinalOnly(BlockOf(t, k)))
       => DataReceived(written[c]) = FinalWrites(t, n, Text)

Verbatim(s) == s

\* C8 as stated: the text emitted for a block that holds only a "final"
\* segment is the segment's content, character for character.
C8_FinalIdentity == FinalBlocksGive(Verbatim)

\* C8 as amended: the text emitted for a block that holds only a "final"
\* segment is the segment's content without its leading and trailing white
\* space, and nothing is emitted when no text remains.
C8_FinalTrimmed == FinalBlocksGive(Trimmed)

\* C8 witness: a flushed response of "final" blocks, one of them with
\* leading white space, one without.
C8_Witness ==
  LET t == EngagedText(chunks[1])
  IN /\ EndedWithDone(1)
     /\ NumBlocks(t) = 2
     /\ \A k \in 1..2 : FinalOnly(BlockOf(t, k))
     /\ \E k \in 1..2 : Head(SegmentContent(BlockOf(t, k))) = SP
     /\ Len(DataReceived(written[1])) = 2

\* The block of the scenario of C9.
SearchBlock ==
  <<CH, "commentary", SP, TO, FPREFIX, "search", SP, CON, "json", MSG, PAYLOAD>>

\* In XML mode, on a connection whose blocks are all the search block, each
\* terminated block, and the trailing one once flushed, is written as the
\* given text.
SearchBlockRendersAs(text) ==
  \A c \in Conns :
    LET t == EngagedText(chunks[c])
        n == NumBlocks(t)
        d == DataReceived(written[c])
    IN (/\ xml_mode
        /\ n >= 1
        /\ \A k \in 1..n : BlockOf(t, k) = SearchBlock)
       => /\ Len(d) = IF EndedWithDone(c) THEN n ELSE n - 1
          /\ \A k \in 1..Len(d) :
               /\ d[k].delta.has = "content"
               /\ JoinStr(d[k].delta.content) = text

\* C9 as stated: the search block is rendered <search><q>cats</q></search>.
C9_XmlOneLine == SearchBlockRendersAs("<search><q>cats</q></search>")

\* C9 as amended: the search block is rendered with a newline between all
\* its parts, the opening tag, the argument element and the closing tag:
\* <search>\n<q>cats</q>\n</search>.
C9_XmlLines == SearchBlockRendersAs("<search>\n<q>cats</q>\n</search>")

\* C9 witness: in XML mode a search block was written while streaming and
\* another at the flush.
C9_Witness ==
  /\ xml_mode
  /\ EndedWithDone(1)
  /\ NumBlocks(EngagedText(chunks[1])) = 2
  /\ \A k \in 1..2 : BlockOf(EngagedText(chunks[1]), k) = SearchBlock
  /\ Len(DataReceived(written[1])) = 2

\* The ids of the tool calls written on a connection, in order.
RECURSIVE CallIds(_)
CallIds(w) ==
  IF w = <<>> THEN <<>>
  ELSE LET calls == Head(w).chunk.delta.tool_calls
       IN [i \in 1..Len(calls) |-> calls[i].id] \o CallIds(Tail(w))

\* C10: in call-list mode the tool-call ids written on one connection are
\* pairwise distinct.
C10_DistinctCallIds ==
  \A c \in Conns :
    ~xml_mode =>
      \A i, j \in 1..Len(CallIds(written[c])) :
        i # j => CallIds(written[c])[i] # CallIds(written[c])[j]

\* The text holds none of the markers of the grammar.
NoBoundaryToken(text) == \A i \in 1..Len(text) : text[i] \notin RawMarkers

\* A step of connection c that decodes one more chunk.
ChunkDecoded(c) == chunks'[c] # chunks[c]

\* C11: while the connection is idle, a fragment that holds no boundary
\* token is written to the client unmodified, and the step leaves the
\* connection idle and its buffer empty.
C11_IdleRelay ==
  [][\A c \in Conns :
       (/\ ChunkDecoded(c)
        /\ ~harmony_mode[c]
        /\ NoBoundaryToken(ContentOf(Last(chunks'[c]))))
       => /\ written'[c] = Append(written[c], PassLine(Last(chunks'[c])))
          /\ ~harmony_mode'[c]
          /\ buf[c] = <<>> /\ buf'[c] = <<>>]_vars

\* C11 witness: an idle connection has relayed a fragment of plain text and
\* is still idle, its buffer empty.
C11_Witness ==
  /\ pc[1] = "stream"
  /\ ~harmony_mode[1]
  /\ buf[1] = <<>>
  /\ written[1] # <<>>
  /\ Last(written[1]) =
       PassLine([id |-> UpstreamId, delta |-> ContentDelta(<<"Hello">>)])

\* The segments of a text that the client is not to see: analysis,
\* commentary without a recipient, and channels the parser does not know.
HiddenSegment(m) ==
  \/ strip(m.channel) \notin {<<"final">>, <<"commentary">>}
  \/ strip(m.channel) = <<"commentary">> /\ strip(m.recipient) = <<>>

\* The content of the analysis segments and of the commentary segments
\* without a recipient of a text.
ReasoningOf(t) ==
  LET ms == finditer(t, 1)
  IN {strip(ms[i].content) : i \in {k \in 1..Len(ms) :
        /\ HiddenSegment(ms[k])
        /\ strip(ms[k].channel) \in {<<"analysis">>, <<"commentary">>}}}

\* The positions at which text r occurs in text t.
Occurrences(r, t) ==
  {i \in 1..(Len(t) - Len(r) + 1) : SubSeq(t, i, i + Len(r) - 1) = r}

\* C12: the content of an analysis segment, or of a commentary segment
\* without a recipient, of the upstream text never occurs in what is written
\* to the client (content that the upstream text holds once, so that an
\* occurrence in the output is that segment's); and when every block of the upstream text holds only such
\* segments or segments of unknown channels, no fragment is emitted.
C12_ReasoningHidden ==
  \A c \in Conns :
    LET t == AllText(chunks[c])
    IN /\ \A r \in ReasoningOf(t) \ {<<>>} :
            Cardinality(Occurrences(r, t)) = 1
              => Occurrences(r, ClientText(written[c])) = {}
       /\ (/\ Len(t) > 0 /\ t[1] = CH
           /\ \A i \in 1..Len(finditer(t, 1)) : HiddenSegment(finditer(t, 1)[i]))
          => DataReceived(written[c]) = <<>>

\* The pending buffer that a text received in the engaged state leaves:
\* the text itself while it holds fewer than two channel markers, the text
\* from its last channel marker on afterwards.
PendingOf(t) ==
  IF NumBlocks(t) >= 2
  THEN SubSeq(t, Nth(Positions(t, CH), NumBlocks(t)), Len(t))
  ELSE t

\* C13: a line that lacks the 'data: ' prefix, or whose payload is not
\* valid JSON, is dropped: the step writes nothing and leaves the
\* connection open, its engaged flag and its buffer as they were; and the
\* lines that follow are processed as if it had not been received: flag and
\* buffer of an open connection are those that its decoded chunks alone
\* determine, however many lines were dropped between them.
C13_BadLineDropped ==
  /\ [](\A c \in Conns :
         pc[c] = "stream" =>
           /\ harmony_mode[c] = (EngageAt(chunks[c]) <= Len(chunks[c]))
           /\ buf[c] = PendingOf(EngagedText(chunks[c])))
  /\ [][\A c \in Conns :
          (NoPrefixLine(c) \/ MalformedLine(c)) =>
            /\ written'[c] = written[c]
            /\ harmony_mode'[c] = harmony_mode[c]
            /\ buf'[c] = buf[c]
            /\ chunks'[c] = chunks[c]
            /\ pc'[c] = "stream"]_vars

\* C13 witness: an open, engaged connection has read three lines, dropped
\* one of them, and has written the block that its two chunks complete.
C13_Witness ==
  /\ pc[1] = "stream"
  /\ nread[1] = 3
  /\ Len(chunks[1]) = 2
  /\ harmony_mode[1]
  /\ ContentOf(chunks[1][1]) = <<CH, "final", MSG, "Hello">>
  /\ buf[1] = <<CH, "final", MSG, SP, "world">>
  /\ Len(written[1]) = 1

\* The transform of a decoded non-stream body raises.
TransformRaises(body) == body.kind \notin {"none", "text", "object"}

\* C14: when the transform of a decoded non-stream body raises, the client
\* receives the upstream text as it was received, not an error response.
C14_RawOnTransformError ==
  \A c \in Conns :
    (pc[c] = "answered" /\ TransformRaises(lm_resp[c]))
      => response[c] = RawResponse(lm_resp[c])

\* C14 as the code has it: the client receives the upstream text as it was
\* received when the body does not decode as JSON; when the transform of a
\* decoded body raises, the client receives an error response, status 500
\* and type proxy_error, and nothing of the upstream body.
C14_ErrorOnTransformError ==
  \A c \in Conns :
    pc[c] = "answered" =>
      /\ lm_resp[c].kind = "text" => response[c] = RawResponse(lm_resp[c])
      /\ TransformRaises(lm_resp[c]) =>
           /\ response[c].status = 500
           /\ response[c].via = "json"
           /\ response[c].body = ErrorBody("proxy_error")

\* C14 witness: a non-stream request whose decoded body made the transform
\* raise has been answered with status 500.
C14_Witness ==
  /\ pc[1] = "answered"
  /\ TransformRaises(lm_resp[1])
  /\ response[1].status = 500

\* The buffer of connection c after the content of the chunk that the step
\* decodes has been appended to it.
AfterAppend(c) == Cat(buf[c], ContentOf(Last(chunks'[c])))

\* C15: in the engaged state, when the buffer after the append holds fewer
\* than two channel markers, the step writes nothing and keeps the buffer
\* whole, the old buffer followed by the new content; so a step that writes a
\* translated block is one whose buffer holds the marker that follows the
\* block, or the end-of-stream flush.
C15_WaitForNextMarker ==
  [][\A c \in Conns :
       /\ (ChunkDecoded(c) /\ harmony_mode'[c] /\ NumBlocks(AfterAppend(c)) < 2)
            => /\ written'[c] = written[c]
               /\ buf'[c] = AfterAppend(c)
       /\ DataReceived(written'[c]) # DataReceived(written[c])
            => \/ ChunkDecoded(c) /\ NumBlocks(AfterAppend(c)) >= 2
               \/ Last(written'[c]) = DoneLine]_vars

\* C15 witness: an engaged connection holds a whole final segment after
\* text that came before its marker, and has written nothing.
C15_Witness ==
  /\ pc[1] = "stream"
  /\ harmony_mode[1]
  /\ buf[1] = <<MSG, "world", CH, "final", MSG, "Hello">>
  /\ written[1] = <<>>

\* C16: a step whose buffer after the append holds N >= 2 channel markers
\* leaves as buffer exactly the text from the last marker on and writes the
\* translations of the N - 1 blocks before it, in order; and the buffer of a
\* connection never holds more than one channel marker between two steps.
C16_BufferAfterExtraction ==
  /\ [](\A c \in Conns : NumBlocks(buf[c]) <= 1)
  /\ [][\A c \in Conns :
          (ChunkDecoded(c) /\ harmony_mode'[c] /\ NumBlocks(AfterAppend(c)) >= 2)
            => LET t == AfterAppend(c)
                   N == NumBlocks(t)
               IN /\ buf'[c] = SubSeq(t, Nth(Positions(t, CH), N), Len(t))
                  /\ Received(written'[c]) =
                       Received(written[c]) \o Translations(t, 1, N - 1)]_vars

\* C16 witness: one step found three channel markers in the buffer, wrote
\* the translations of two blocks and kept the third block as the buffer.
C16_Witness ==
  /\ pc[1] = "stream"
  /\ Len(chunks[1]) = 2
  /\ ContentOf(chunks[1][1]) = <<CH, "final", MSG, "Hello">>
  /\ ContentOf(chunks[1][2]) =
       <<CH, "final", MSG, "Hello", CH, "final", MSG, SP, "world">>
  /\ Len(written[1]) = 2
  /\ buf[1] = <<CH, "final", MSG, SP, "world">>

\* C17: when the upstream connection fails in mid-stream, the step writes
\* nothing, whatever the buffer holds, and closes the response; nothing is
\* written afterwards: the client has exactly what was written before the
\* failure.
C17_FailureDiscardsBuffer ==
  [][\A c \in Conns :
       /\ UpstreamError(c) => (written'[c] = written[c] /\ pc'[c] = "closed")
       /\ (pc[c] = "closed" /\ ~EndedWithDone(c))
            => (written'[c] = written[c] /\ pc'[c] = "closed")]_vars

\* C17 witness: a response was closed without the sentinel while the buffer
\* held a final segment that was never written.
C17_Witness ==
  /\ pc[1] = "closed"
  /\ ~EndedWithDone(1)
  /\ buf[1] = <<CH, "final", MSG, SP, "world">>
  /\ Len(written[1]) = 1
  /\ ContentOf(written[1][1].chunk) = <<"Hello">>
  /\ written[1][1].kind = "data"

\* A step of connection c: every step moves the connection's handler or
\* reads one of its lines.
StepOf(c) == pc'[c] # pc[c] \/ nread'[c] # nread[c]

\* C18: with several streaming connections interleaved, what each client
\* has received is the translation of its own upstream sequence alone, and a
\* step of one connection leaves the engaged flag, the buffer and the output
\* of every other connection as they were.
C18_ConnectionsIsolated ==
  /\ [](\A c \in Conns :
         Received(written[c]) = Expected(chunks[c], EndedWithDone(c)))
  /\ [][\A c \in Conns : \A d \in Conns \ {c} :
          StepOf(c) => /\ harmony_mode'[d] = harmony_mode[d]
                       /\ buf'[d] = buf[d]
                       /\ written'[d] = written[d]
                       /\ chunks'[d] = chunks[d]]_vars

\* C18 witness: two connections are open at once, one engaged with a
\* segment in its buffer, the other idle after relaying plain text.
C18_Witness ==
  /\ pc[1] = "stream" /\ pc[2] = "stream"
  /\ harmony_mode[1] /\ buf[1] = <<CH, "final", MSG, "Hello">>
  /\ ~harmony_mode[2] /\ buf[2] = <<>>
  /\ Len(written[2]) = 1
  /\ Len(chunks[1]) = 1

\* The sentinel has been written on connection c.
SentinelWritten(c) == \E i \in 1..Len(written[c]) : written[c][i] = DoneLine

\* A write of the flush: _flush_harmony_buffer makes its chunk from {}, so
\* it carries the default id, not the id of an upstream chunk.
FlushWrite(e) == e.kind = "data" /\ e.chunk.id = DefaultChunkId

\* C19: the buffer is flushed at most once per connection and only when
\* 'data: [DONE]' is received: a write of the flush is followed at once by
\* the sentinel, which is written once, as the last write; and after the
\* sentinel nothing more is written and no upstream line is processed.
C19_FlushOnceAtDone ==
  /\ [](\A c \in Conns : \A i \in 1..Len(written[c]) :
         /\ written[c][i] = DoneLine => i = Len(written[c])
         /\ FlushWrite(written[c][i]) =>
              (i = Len(written[c]) - 1 /\ Last(written[c]) = DoneLine))
  /\ [][\A c \in Conns :
          SentinelWritten(c) => /\ written'[c] = written[c]
                                /\ nread'[c] = nread[c]
                                /\ chunks'[c] = chunks[c]
                                /\ buf'[c] = buf[c]
                                /\ pc'[c] = "closed"]_vars

\* C19 witness: the flush wrote the final segment of the buffer, the
\* sentinel followed, and the connection was closed after one line of three.
C19_Witness ==
  /\ pc[1] = "closed"
  /\ nread[1] = 1
  /\ Len(written[1]) = 2
  /\ FlushWrite(written[1][1])
  /\ ContentOf(written[1][1].chunk) = <<"Hello">>
  /\ written[1][2] = DoneLine

\* The channel segments of a text received in the engaged state whose
\* translation is due: all of them once the stream was flushed, those
\* before the last channel marker until then.
SegmentsDue(t, flushed) ==
  IF flushed THEN finditer(t, 1)
  ELSE IF NumBlocks(t) = 0 THEN <<>>
  ELSE finditer(SubSeq(t, 1, Nth(Positions(t, CH), NumBlocks(t)) - 1), 1)

\* What one channel segment alone translates to.
SegmentTranslation(m) ==
  LET outs == BlockOutputs(AddSegment(EmptyResult, m), DefaultChunkId,
                           xml_mode, hashOf)
  IN [i \in 1..Len(outs) |-> [kind |-> "data", delta |-> outs[i].delta]]

RECURSIVE SegmentTranslations(_)
SegmentTranslations(ms) ==
  IF ms = <<>> THEN <<>>
  ELSE SegmentTranslation(Head(ms)) \o SegmentTranslations(Tail(ms))

\* The text received in the engaged state before its first channel marker:
\* all of it when it holds none.
BeforeFirstMarker(t) ==
  IF NumBlocks(t) = 0 THEN t ELSE SubSeq(t, 1, Nth(Positions(t, CH), 1) - 1)

\* C20: buffered text outside every channel segment is never emitted,
\* neither by an extraction nor by the flush: what an engaged connection has
\* written is the translation of the channel segments of its text, one by
\* one, and of nothing else; so text before the first channel marker adds
\* nothing, and a text without a channel marker yields no write at all.
C20_OutsideTextDropped ==
  \A c \in Conns :
    LET t == EngagedText(chunks[c])
    IN /\ DataReceived(written[c]) =
            SegmentTranslations(SegmentsDue(t, EndedWithDone(c)))
       /\ NumBlocks(t) = 0 => DataReceived(written[c]) = <<>>

\* C20 witness: the engaged text began with text before its first channel
\* marker; the stream was flushed and the client received the final segment
\* alone.
C20_Witness ==
  /\ EndedWithDone(1)
  /\ Len(chunks[1]) = 2
  /\ BeforeFirstMarker(EngagedText(chunks[1])) = <<MSG, "world">>
  /\ Len(written[1]) = 2
  /\ ContentOf(written[1][1].chunk) = <<"Hello">>

====
